---------------------------- MODULE Spec2Model ----------------------------
(***************************************************************************)
(* Model of the bus-tracker backend: the fetch / normalize / cache /       *)
(* persist pipeline of fetchMetrobusData, the handlers of GET /api/buses   *)
(* and GET /api/buses/filtered, and the periodic timer.                    *)
(*                                                                         *)
(* Spec          the server with requests to /api/buses and a store that   *)
(*               accepts every write                                       *)
(* SpecStore     the refresh machine with a store that may refuse a write  *)
(* FairSpecStore SpecStore with the fairness of Node's scheduling          *)
(* SpecFaults    Spec with a store that may refuse a write                 *)
(* FairSpecFaults SpecFaults with the fairness of Node's scheduling        *)
(* SpecFiltered  the refresh machine with requests to /api/buses/filtered  *)
(*                                                                         *)
(* The repository holds two variants of the server file:                   *)
(*   "flat" : src/server.js          (sqlite3, flat bus objects)           *)
(*   "geo"  : src/unnamed/part_000   (better-sqlite3, GeoJSON features)    *)
(* The variable `variant` is chosen once in Init and never changes.        *)
(*                                                                         *)
(* Time is counted in units of 10 seconds.  Strings are sequences of       *)
(* one-character strings, so that split / parseInt / parseFloat are        *)
(* computed and not assumed.  Numbers are integers (fixed point); the      *)
(* strings parsed as numbers hold no '.', 'e' or blank.                    *)
(* The passthrough columns heading, speed, current_location and deviation  *)
(* are not tracked: no path of the handlers modelled here branches on      *)
(* them.                                                                   *)
(***************************************************************************)
EXTENDS Integers, Sequences, FiniteSets, TLC

\* ---------------------------------------------------------------- bounds
MaxTime == 3
MaxClients == 1
MaxRows == 1

\* ------------------------------------------------------ program constants
\* cacheExpiry: 30000 ms
cacheExpiry == 3
\* axios timeout: 10000 ms
axiosTimeout == 1
\* setInterval(..., 30000)
timerPeriod == 3
\* datetime('now', '-5 minutes')
fallbackWindow == 30
\* datetime('now', '-10 minutes')
retentionWindow == 60

Clients == 1..MaxClients
\* caller 0 is startPeriodicFetch / the interval callback
TimerCaller == 0

\* ------------------------------------------------------------- JS values
Undef == [t |-> "undefined", n |-> 0, s |-> <<>>]
JsNull == [t |-> "null", n |-> 0, s |-> <<>>]
NaN == [t |-> "nan", n |-> 0, s |-> <<>>]
Num(k) == [t |-> "num", n |-> k, s |-> <<>>]
Str(cs) == [t |-> "str", n |-> 0, s |-> cs]

None == <<>>
Some(x) == <<x>>

DigitChar == <<"0", "1", "2", "3", "4", "5", "6", "7", "8", "9">>
IsDigit(c) == \E i \in 1..10 : DigitChar[i] = c
DigitVal(c) == (CHOOSE i \in 1..10 : DigitChar[i] = c) - 1

RECURSIVE DigitsLen(_)
\* length of the longest prefix of cs made of decimal digits
DigitsLen(cs) ==
  IF cs = <<>> \/ ~IsDigit(Head(cs)) THEN 0 ELSE 1 + DigitsLen(Tail(cs))

RECURSIVE DigitsValue(_, _)
DigitsValue(cs, acc) ==
  IF cs = <<>> \/ ~IsDigit(Head(cs)) THEN acc
  ELSE DigitsValue(Tail(cs), acc * 10 + DigitVal(Head(cs)))

\* the numeric prefix of a character sequence: [sign] digits, else NaN
\* (what parseFloat and parseInt(.,10) share on strings without '.' or 'e')
NumericPrefix(cs) ==
  LET neg == cs /= <<>> /\ Head(cs) = "-"
      sgn == cs /= <<>> /\ Head(cs) \in {"-", "+"}
      body == IF sgn THEN Tail(cs) ELSE cs
  IN IF DigitsLen(body) = 0 THEN NaN
     ELSE Num(IF neg THEN 0 - DigitsValue(body, 0) ELSE DigitsValue(body, 0))

\* parseFloat(v): ToString(v), then the numeric prefix
parseFloat(v) ==
  CASE v.t = "num" -> v
    [] v.t = "str" -> NumericPrefix(v.s)
    [] OTHER -> NaN

\* parseInt(v, 10)
parseInt(v) ==
  CASE v.t = "num" -> v
    [] v.t = "str" -> NumericPrefix(v.s)
    [] OTHER -> NaN

\* ToNumber(v), the coercion behind the global isNaN
ToNumber(v) ==
  CASE v.t = "num" -> v
    [] v.t = "null" -> Num(0)
    [] v.t = "str" ->
         IF v.s = <<>> THEN Num(0)
         ELSE LET p == NumericPrefix(v.s)
                  sgn == Head(v.s) \in {"-", "+"}
                  body == IF sgn THEN Tail(v.s) ELSE v.s
              IN IF p.t = "num" /\ DigitsLen(body) = Len(body) THEN p ELSE NaN
    [] OTHER -> NaN

isNaN(v) == ToNumber(v).t = "nan"

\* JS truthiness, as used by || and by if (...)
Truthy(v) ==
  CASE v.t = "num" -> v.n /= 0
    [] v.t = "str" -> v.s /= <<>>
    [] OTHER -> FALSE

\* a || b
Or(a, b) == IF Truthy(a) THEN a ELSE b

RECURSIVE SplitFirst(_, _)
\* s.split(sep)[0]: the characters before the first separator
SplitFirst(cs, sep) ==
  IF cs = <<>> \/ Head(cs) = sep THEN <<>>
  ELSE <<Head(cs)>> \o SplitFirst(Tail(cs), sep)

RECURSIVE DigitsOf(_)
\* decimal digits of a natural number
DigitsOf(k) ==
  IF k < 10 THEN <<DigitChar[k + 1]>>
  ELSE DigitsOf(k \div 10) \o <<DigitChar[(k % 10) + 1]>>

\* `bus_${Date.now()}`
SynthBusId(t) == Str(<<"b", "u", "s", "_">> \o DigitsOf(t))

Unknown == Str(<<"U", "n", "k", "n", "o", "w", "n">>)


\* --------------------------------------------------- upstream payloads
\* A decoded response body: shape "array" (top-level array), "wrapped"
\* (object whose Bus / features property is an array), "other" (any other
\* non-null value) or "null"; items is the vehicle list of the first two.
Payload(shape, items) == [shape |-> shape, items |-> items]

\* elements of the flat shape (src/server.js)
FlatBus(vehicle, routenumber, current_route, bus_lat, bus_lon) ==
  [isNull |-> FALSE, vehicle |-> vehicle, routenumber |-> routenumber,
   current_route |-> current_route, bus_lat |-> bus_lat, bus_lon |-> bus_lon]
FlatNull ==
  [isNull |-> TRUE, vehicle |-> Undef, routenumber |-> Undef,
   current_route |-> Undef, bus_lat |-> Undef, bus_lon |-> Undef]
FlatGood ==
  FlatBus(Str(<<"1", "2">>), Str(<<"0", "9", "-", "1">>), Undef,
          Str(<<"4", "7">>), Str(<<"-", "5", "2">>))
FlatGood2 == FlatBus(Undef, Undef, Str(<<"3">>), Num(48), Num(-53))
FlatNoCoord ==
  FlatBus(Str(<<"1", "3">>), Str(<<"2">>), Undef, Undef, Str(<<"a", "b", "c">>))

\* elements of the GeoJSON shape (src/unnamed/part_000)
Feature(hasGeometry, hasProperties, coordinates, id, unit, name) ==
  [isNull |-> FALSE, hasGeometry |-> hasGeometry,
   hasProperties |-> hasProperties, coordinates |-> coordinates,
   id |-> id, unit |-> unit, name |-> name]
GeoNull ==
  [isNull |-> TRUE, hasGeometry |-> FALSE, hasProperties |-> FALSE,
   coordinates |-> <<>>, id |-> Undef, unit |-> Undef, name |-> Undef]
GeoGood ==
  Feature(TRUE, TRUE, <<Num(-52), Num(47)>>, Str(<<"7">>),
          Str(<<"1", "2">>), Str(<<"0", "9", "-", "1">>))
GeoGood2 ==
  Feature(TRUE, TRUE, <<Num(-53), Num(48)>>, Num(8), Undef, Undef)
GeoBadCoord ==
  Feature(TRUE, TRUE, <<Str(<<"a", "b", "c">>)>>, Str(<<"9">>),
          Str(<<"1", "3">>), Str(<<"2">>))
GeoNoGeometry ==
  Feature(FALSE, TRUE, <<>>, Str(<<"5">>), Str(<<"1", "4">>), Str(<<"2">>))

\* the response bodies the upstream is taken to send
Payloads(v) ==
  IF v = "flat"
  THEN { Payload("array", <<FlatGood>>),
         Payload("wrapped", <<FlatGood2>>),
         Payload("array", <<FlatGood, FlatGood2>>),
         Payload("array", <<FlatGood, FlatNoCoord>>),
         Payload("array", <<FlatGood, FlatNull>>),
         Payload("array", <<>>),
         Payload("other", <<>>),
         Payload("null", <<>>) }
  ELSE { Payload("array", <<GeoGood>>),
         Payload("wrapped", <<GeoGood2>>),
         Payload("array", <<GeoGood, GeoGood2>>),
         Payload("wrapped", <<GeoGood, GeoBadCoord>>),
         Payload("array", <<GeoGood, GeoNoGeometry>>),
         Payload("array", <<GeoGood, GeoNull>>),
         Payload("wrapped", <<>>),
         Payload("other", <<>>),
         Payload("null", <<>>) }

\* what the awaited axios.get settles to: a rejection (network error,
\* timeout, non-2xx status) or a response carrying a body
Outcomes(v) ==
  {[ok |-> FALSE, body |-> Payload("null", <<>>)]}
    \cup {[ok |-> TRUE, body |-> p] : p \in Payloads(v)}

\* ------------------------------------------------------------ the store
\* TEXT column affinity: a number bound to a TEXT column is stored as text
TextAffinity(v) == IF v.t = "num" THEN Str(DigitsOf(v.n)) ELSE v

Row(id, bus_id, route_number, latitude, longitude, ts) ==
  [id |-> id, bus_id |-> TextAffinity(bus_id),
   route_number |-> TextAffinity(route_number),
   latitude |-> latitude, longitude |-> longitude, timestamp |-> ts]

\* Prune with the comparison turned around: it deletes the rows younger
\* than the retention horizon
PruneInverted(rows, t) ==
  SelectSeq(rows, LAMBDA r : r.timestamp < t - retentionWindow)

\* DELETE FROM bus_positions WHERE timestamp < datetime('now','-10 minutes')
Prune(rows, t) ==
  SelectSeq(rows, LAMBDA r : ~(r.timestamp < t - retentionWindow))

RECURSIVE OrderByTimestampDesc(_)
\* ORDER BY timestamp DESC; equal timestamps come out in rowid order
OrderByTimestampDesc(rows) ==
  IF rows = <<>> THEN <<>>
  ELSE LET i == CHOOSE k \in 1..Len(rows) :
                  \A j \in 1..Len(rows) :
                     \/ rows[k].timestamp > rows[j].timestamp
                     \/ rows[k].timestamp = rows[j].timestamp /\ k <= j
           rest == [j \in 1..(Len(rows) - 1) |->
                      IF j < i THEN rows[j] ELSE rows[j + 1]]
       IN <<rows[i]>> \o OrderByTimestampDesc(rest)

\* SelectRecent with the retention horizon in place of the 5 minute window
SelectRecentTenMinutes(rows, t) ==
  OrderByTimestampDesc(
    SelectSeq(rows, LAMBDA r : r.timestamp > t - retentionWindow))

\* SELECT * FROM bus_positions WHERE timestamp > datetime('now','-5 minutes')
\*   ORDER BY timestamp DESC
SelectRecent(rows, t) ==
  OrderByTimestampDesc(
    SelectSeq(rows, LAMBDA r : r.timestamp > t - fallbackWindow))

\* --------------------------------------------- the filter query's SQL
RECURSIVE SplitRest(_, _)
\* the characters after the first separator (<<>> if there is none)
SplitRest(cs, sep) ==
  IF cs = <<>> THEN <<>>
  ELSE IF Head(cs) = sep THEN Tail(cs)
  ELSE SplitRest(Tail(cs), sep)

RECURSIVE Split(_, _)
\* s.split(sep): the pieces of s between the separators
Split(cs, sep) ==
  IF \A i \in 1..Len(cs) : cs[i] /= sep THEN <<cs>>
  ELSE <<SplitFirst(cs, sep)>> \o Split(SplitRest(cs, sep), sep)

RECURSIVE TrimStart(_)
TrimStart(cs) ==
  IF cs /= <<>> /\ Head(cs) = " " THEN TrimStart(Tail(cs)) ELSE cs

RECURSIVE TrimEnd(_)
TrimEnd(cs) ==
  IF cs /= <<>> /\ cs[Len(cs)] = " "
  THEN TrimEnd(SubSeq(cs, 1, Len(cs) - 1)) ELSE cs

\* r.trim()
Trim(cs) == TrimEnd(TrimStart(cs))

\* routes.split(',').map(r => r.trim())
RouteList(routes) ==
  LET parts == Split(routes.s, ",")
  IN [i \in 1..Len(parts) |-> Str(Trim(parts[i]))]

UpperChars == <<"A", "B", "C", "D", "E", "F", "G", "H", "I", "J", "K", "L", "M",
                "N", "O", "P", "Q", "R", "S", "T", "U", "V", "W", "X", "Y", "Z">>
LowerChars == <<"a", "b", "c", "d", "e", "f", "g", "h", "i", "j", "k", "l", "m",
                "n", "o", "p", "q", "r", "s", "t", "u", "v", "w", "x", "y", "z">>

\* LIKE compares ASCII letters without regard to case
FoldCase(c) ==
  IF \E i \in 1..26 : UpperChars[i] = c
  THEN LowerChars[CHOOSE i \in 1..26 : UpperChars[i] = c]
  ELSE c

RECURSIVE Like(_, _)
\* SQLite's  text LIKE pattern : % matches any run of characters, _ any
\* one character, any other character itself
Like(text, pattern) ==
  IF pattern = <<>> THEN text = <<>>
  ELSE IF Head(pattern) = "%"
  THEN \/ Like(text, Tail(pattern))
       \/ text /= <<>> /\ Like(Tail(text), pattern)
  ELSE IF text = <<>> THEN FALSE
  ELSE IF Head(pattern) = "_" THEN Like(Tail(text), Tail(pattern))
  ELSE /\ FoldCase(Head(pattern)) = FoldCase(Head(text))
       /\ Like(Tail(text), Tail(pattern))

\* SELECT * FROM bus_positions WHERE timestamp > datetime('now','-5 minutes')
\*   [AND route_number IN (...)] [AND bus_id LIKE '%busNumber%']
\*   ORDER BY timestamp DESC
SelectFiltered(rows, t, routes, busNumber) ==
  OrderByTimestampDesc(
    SelectSeq(rows, LAMBDA r :
      /\ r.timestamp > t - fallbackWindow
      /\ Truthy(routes)
           => \E i \in 1..Len(RouteList(routes)) :
                 r.route_number = RouteList(routes)[i]
      /\ Truthy(busNumber)
           => Like(r.bus_id.s, <<"%">> \o busNumber.s \o <<"%">>)))

\* the values of req.query.routes and req.query.busNumber taken
RoutesInputs ==
  { Undef, Str(<<"0", "9", "-", "1">>), Str(<<"3", ",", " ", "2">>) }

BusNumberInputs ==
  { Undef, Str(<<"1">>), Str(<<"_">>), Str(<<"B">>) }

\* ------------------------------------------------------- store faults
\* What SQLite refuses during one call of fetchMetrobusData: the DELETE
\* (prune), and the INSERT of the element at index insert (0: none).
\* better-sqlite3 (part_000) throws the refusal out of .run().  sqlite3
\* (server.js) runs db.run / stmt.run later and, as no callback is passed,
\* reports the refusal as an 'error' event for which server.js has no
\* listener; fatal says whether that event ends the process before the
\* statements queued behind the refused one have run.
StoreFault(prune, insert, fatal) ==
  [prune |-> prune, insert |-> insert, fatal |-> fatal]

NoFault == StoreFault(FALSE, 0, FALSE)

\* The store is only written for a recognized, non-empty list; at most
\* one statement of a call is refused.
StoreFaults(v, o) ==
  IF o.ok /\ o.body.shape \in {"array", "wrapped"} /\ o.body.items /= <<>>
  THEN {NoFault}
         \cup {StoreFault(TRUE, 0, x) :
                  x \in IF v = "flat" THEN BOOLEAN ELSE {FALSE}}
         \cup {StoreFault(FALSE, i, x) :
                  i \in 1..Len(o.body.items),
                  x \in IF v = "flat" THEN BOOLEAN ELSE {FALSE}}
  ELSE {NoFault}

\* ------------------------------------------- fetchMetrobusData, flat
\* The body of buses.forEach for one element.  st is [db, nextId, threw,
\* idx, fail, fatal, lost]: idx is the index of the element, fail the
\* index of the element whose INSERT the store refuses, lost whether the
\* statements queued from here on never run.
\* reading bus.bus_lat of a null element is a TypeError.  A refused INSERT
\* leaves no row; sqlite3 reports it after the loop has gone on, so the
\* try/catch around stmt.run does not see it.
FlatInsert(st, bus, t) ==
  IF st.threw THEN st
  ELSE IF bus.isNull THEN [st EXCEPT !.threw = TRUE]
  ELSE LET lat == parseFloat(bus.bus_lat)
           lng == parseFloat(bus.bus_lon)
           busId == Or(bus.vehicle, SynthBusId(t))
           route == Or(Or(bus.routenumber, bus.current_route), Unknown)
       IN IF lat.t = "nan" \/ lng.t = "nan" THEN st
          ELSE IF st.lost THEN st
          ELSE IF st.idx = st.fail THEN [st EXCEPT !.lost = st.fatal]
          ELSE [st EXCEPT
                  !.db = Append(st.db, Row(st.nextId, busId, route, lat, lng, t)),
                  !.nextId = st.nextId + 1]

RECURSIVE FlatInsertAll(_, _, _)
FlatInsertAll(st, buses, t) ==
  IF buses = <<>> THEN st
  ELSE FlatInsertAll(FlatInsert([st EXCEPT !.idx = @ + 1], Head(buses), t),
                     Tail(buses), t)

\* one element of buses.map(bus => ({...bus, veh, route, lat, lng, ...}))
FlatTransform(bus) ==
  [vehicle |-> bus.vehicle, routenumber |-> bus.routenumber,
   current_route |-> bus.current_route,
   bus_lat |-> bus.bus_lat, bus_lon |-> bus.bus_lon,
   veh |-> bus.vehicle, route |-> bus.routenumber,
   lat |-> parseFloat(bus.bus_lat), lng |-> parseFloat(bus.bus_lon)]

\* -------------------------------------------- fetchMetrobusData, geo
Coord(feature, i) ==
  IF i <= Len(feature.coordinates) THEN feature.coordinates[i] ELSE Undef

\* The body of features.forEach for one element.  Reading feature.geometry
\* of a null element is a TypeError; stmt.run throws on a NOT NULL
\* violation or when the store refuses the INSERT, and that throw is
\* caught per row.
GeoInsert(st, feature, t) ==
  IF st.threw THEN st
  ELSE IF feature.isNull THEN [st EXCEPT !.threw = TRUE]
  ELSE IF ~feature.hasGeometry \/ ~feature.hasProperties THEN st
  ELSE LET lng == Coord(feature, 1)
           lat == Coord(feature, 2)
           busId == Or(Or(feature.unit, feature.id), SynthBusId(t))
           route == Or(feature.name, Unknown)
       IN IF isNaN(lat) \/ isNaN(lng) THEN st
          ELSE IF lat.t = "null" \/ lng.t = "null" THEN st
          ELSE IF st.idx = st.fail THEN st
          ELSE [st EXCEPT
                  !.db = Append(st.db, Row(st.nextId, busId, route,
                                           ToNumber(lat), ToNumber(lng), t)),
                  !.nextId = st.nextId + 1]

RECURSIVE GeoInsertAll(_, _, _)
GeoInsertAll(st, features, t) ==
  IF features = <<>> THEN st
  ELSE GeoInsertAll(GeoInsert([st EXCEPT !.idx = @ + 1], Head(features), t),
                    Tail(features), t)

\* destructuring geometry.coordinates / reading properties.name of an
\* element without geometry / properties is a TypeError, as is .split on a
\* truthy name that is not a string
GeoTransformThrows(feature) ==
  \/ ~feature.hasGeometry
  \/ ~feature.hasProperties
  \/ (Truthy(feature.name) /\ feature.name.t /= "str")

\* GeoTransform reading the pair as [latitude, longitude]
GeoTransformSwapped(feature) ==
  LET rawRoute == Or(feature.name, Str(<<>>))
      routeNumber == parseInt(Str(SplitFirst(rawRoute.s, "-")))
  IN [id |-> feature.id, busId |-> Or(feature.unit, feature.id),
      route |-> routeNumber,
      lat |-> Coord(feature, 1), lng |-> Coord(feature, 2)]

\* one element of features.map(feature => ({id, busId, route, lat, lng, ...}))
GeoTransform(feature) ==
  LET rawRoute == Or(feature.name, Str(<<>>))
      routeNumber == parseInt(Str(SplitFirst(rawRoute.s, "-")))
  IN [id |-> feature.id, busId |-> Or(feature.unit, feature.id),
      route |-> routeNumber,
      lat |-> Coord(feature, 2), lng |-> Coord(feature, 1)]

\* --------------------------------------------------- fetchMetrobusData
\* The cache.  data and lastUpdated are null (None) or set (Some(.)).
EmptyCache == [data |-> None, lastUpdated |-> None]

\* Publish that sets the batch and leaves the time unset
PublishDataOnly(batch, t) == [data |-> Some(batch), lastUpdated |-> None]

\* busDataCache = { data: transformedBuses, lastUpdated: new Date(), ... }
Publish(batch, t) == [data |-> Some(batch), lastUpdated |-> Some(t)]

\* CatchBlock without the stale-snapshot branch: it always rethrows
CatchBlockAlwaysThrows(cache, rows, nid) ==
  [cache |-> cache, db |-> rows, nextId |-> nid,
   threw |-> TRUE, ret |-> <<>>, path |-> "throw"]

\* the catch block: the stale snapshot if there is one, else rethrow
CatchBlock(cache, rows, nid) ==
  IF cache.data /= None
  THEN [cache |-> cache, db |-> rows, nextId |-> nid,
        threw |-> FALSE, ret |-> cache.data[1], path |-> "stale"]
  ELSE [cache |-> cache, db |-> rows, nextId |-> nid,
        threw |-> TRUE, ret |-> <<>>, path |-> "throw"]

\* return [] that also resets the cache
ReturnEmptyClearsCache(cache, rows, nid) ==
  [cache |-> EmptyCache, db |-> rows, nextId |-> nid,
   threw |-> FALSE, ret |-> <<>>, path |-> "empty"]

\* return []
ReturnEmpty(cache, rows, nid) ==
  [cache |-> cache, db |-> rows, nextId |-> nid,
   threw |-> FALSE, ret |-> <<>>, path |-> "empty"]

\* Everything fetchMetrobusData does once the awaited axios.get has
\* settled to outcome o, at time t, from cache / store contents rows / nid,
\* with the store refusing what fault says.
\* Result: the new cache, store and id counter, whether the call threw,
\* the value it returned, and the path it took.
\* A null body throws before the shape is looked at: Object.keys(null) in
\* server.js, response.data.features in part_000.
\* A refused DELETE throws out of db.prepare(...).run() in part_000; in
\* server.js db.run only queues the statement and the call goes on.
fetchMetrobusData(v, o, fault, cache, rows, nid, t) ==
  IF ~o.ok THEN CatchBlock(cache, rows, nid)
  ELSE IF o.body.shape = "null" THEN CatchBlock(cache, rows, nid)
  ELSE IF o.body.shape = "other" THEN ReturnEmpty(cache, rows, nid)
  ELSE IF o.body.items = <<>> THEN ReturnEmpty(cache, rows, nid)
  ELSE IF fault.prune /\ v = "geo" THEN CatchBlock(cache, rows, nid)
  ELSE
    LET items == o.body.items
        st0 == [db |-> IF fault.prune THEN rows ELSE Prune(rows, t),
                nextId |-> nid, threw |-> FALSE,
                idx |-> 0, fail |-> fault.insert, fatal |-> fault.fatal,
                lost |-> fault.prune /\ fault.fatal]
        st1 == IF v = "flat" THEN FlatInsertAll(st0, items, t)
               ELSE GeoInsertAll(st0, items, t)
        mapThrows == v = "geo" /\ \E i \in 1..Len(items) :
                                     GeoTransformThrows(items[i])
        batch == [i \in 1..Len(items) |->
                    IF v = "flat" THEN FlatTransform(items[i])
                    ELSE GeoTransform(items[i])]
    IN IF st1.threw \/ mapThrows
       THEN CatchBlock(cache, st1.db, st1.nextId)
       ELSE [cache |-> Publish(batch, t), db |-> st1.db,
             nextId |-> st1.nextId, threw |-> FALSE, ret |-> batch,
             path |-> "published"]

\* ---------------------------------------------------------------- state
VARIABLES
  variant,       \* which server file runs: "flat" or "geo"
  now,           \* the clock, in units of 10 s
  started,       \* app.listen's callback has run
  timerNext,     \* when the setInterval callback fires next
  busDataCache,  \* the cache object
  db,            \* table bus_positions, in rowid order
  nextId,        \* the AUTOINCREMENT counter of bus_positions
  running,       \* the process has not been ended by an unhandled error
  inflight,      \* calls of fetchMetrobusData awaiting axios.get
  handler,       \* per client: where its GET /api/buses handler stands
  settled,       \* the call of fetchMetrobusData that the last step ran
                 \* to its end (NoCall if none), with what it did
  sent,          \* the response sent by the last step (NoAnswer if none),
                 \* with what led to it
  filtered       \* the response of /api/buses/filtered sent by the last
                 \* step (NoFiltered if none), with what led to it

vars == <<variant, now, started, timerNext, busDataCache, db, nextId,
          running, inflight, handler, settled, sent, filtered>>

\* res.json(...) / res.status(500).json(...)
Response(status, success, data, cached, fallback, lastUpdated) ==
  [status |-> status, success |-> success, data |-> data,
   cached |-> cached, fallback |-> fallback, lastUpdated |-> lastUpdated]

\* The record of one answered request: the client, the response and what
\* the request went through:
\*   fresh      the cache was fresh when the request arrived
\*   upstream   "none", "rejected" or "responded": how axios.get settled
\*   path       the path fetchMetrobusData took ("none" if not called)
\*   body       the response body axios.get settled to
\*   prior      busDataCache.data when axios.get settled
\*   store      "none", "ok" or "failed": the fallback query
\*   storeRows  the store's rows when the fallback query ran
\*   at         the time of the response
\*   overlapped the callers whose fetch was in flight when this request's
\*              fetch settled
Answer(c, resp, fresh, up, body, path, prior, store, rows, overlapped) ==
  [client |-> c, resp |-> resp, fresh |-> fresh, upstream |-> up,
   body |-> body, path |-> path, prior |-> prior, store |-> store,
   storeRows |-> rows, at |-> now, overlapped |-> overlapped]

NoBody == Payload("null", <<>>)

\* The record of one finished call of fetchMetrobusData:
\*   caller     TimerCaller or the client whose handler made the call
\*   upstream   "rejected" or "responded": how axios.get settled
\*   body       the response body axios.get settled to
\*   fault      what the store refused during the call
\*   path       "published", "empty", "stale" or "throw"
\*   ret        the value returned (<<>> if the call threw)
\*   overlapped the callers of the fetches still in flight
Call(caller, up, body, fault, r, overlapped) ==
  [caller |-> caller, upstream |-> up, body |-> body, fault |-> fault,
   path |-> r.path, ret |-> r.ret, overlapped |-> overlapped]

NoCall ==
  [caller |-> 0 - 1, upstream |-> "none", body |-> NoBody, fault |-> NoFault,
   path |-> "none", ret |-> <<>>, overlapped |-> {}]

NoAnswer ==
  [client |-> 0, resp |-> Response(0, FALSE, <<>>, FALSE, FALSE, None),
   fresh |-> FALSE, upstream |-> "none", body |-> NoBody, path |-> "none",
   prior |-> None, store |-> "none", storeRows |-> <<>>, at |-> 0,
   overlapped |-> {}]

\* The record of one answered request to /api/buses/filtered: the client,
\* the query parameters, the status, success and data of the response,
\* and the store's rows and the time when the query ran.
Filtered(c, routes, busNumber, status, data, rows) ==
  [client |-> c, routes |-> routes, busNumber |-> busNumber,
   status |-> status, success |-> status = 200, data |-> data,
   storeRows |-> rows, at |-> now]

NoFiltered ==
  [client |-> 0, routes |-> Undef, busNumber |-> Undef, status |-> 0,
   success |-> FALSE, data |-> <<>>, storeRows |-> <<>>, at |-> 0]

\* pc is "idle", "awaitFetch" or "awaitDb"; a handler waiting in db.all
\* keeps how its axios.get settled and what the cache then held
IdleHandler ==
  [pc |-> "idle", upstream |-> "none", body |-> NoBody, prior |-> None]

\* rows a previous run of the process left in ./bus_data.db
OldRow == Row(1, Str(<<"1", "2">>), Str(<<"0", "9", "-", "1">>),
              Num(47), Num(-52), 0 - 58)
RecentRow == Row(1, Str(<<"1", "3">>), Str(<<"2">>),
                 Num(48), Num(-53), 0 - 27)
InitialStores == { <<>>, <<OldRow>>, <<RecentRow>> }

Init ==
  /\ variant \in {"flat", "geo"}
  /\ now = 0
  /\ started = FALSE
  /\ timerNext = 0
  /\ busDataCache = EmptyCache
  /\ db \in InitialStores
  /\ nextId = Len(db) + 1
  /\ running = TRUE
  /\ inflight = {}
  /\ handler = [c \in Clients |-> IdleHandler]
  /\ settled = NoCall
  /\ sent = NoAnswer
  /\ filtered = NoFiltered

\* a call of fetchMetrobusData up to its await of axios.get
StartFetch(caller) == [caller |-> caller, started |-> now]

\* app.listen callback: the first fetch and setInterval
startPeriodicFetch ==
  /\ running
  /\ ~started
  /\ started' = TRUE
  /\ timerNext' = now + timerPeriod
  /\ inflight' = inflight \cup {StartFetch(TimerCaller)}
  /\ settled' = NoCall
  /\ filtered' = NoFiltered
  /\ sent' = NoAnswer
  /\ UNCHANGED <<variant, now, busDataCache, db, nextId, running, handler>>

\* the setInterval callback
TimerTick ==
  /\ running
  /\ started
  /\ now = timerNext
  /\ timerNext' = timerNext + timerPeriod
  /\ inflight' = inflight \cup {StartFetch(TimerCaller)}
  /\ settled' = NoCall
  /\ filtered' = NoFiltered
  /\ sent' = NoAnswer
  /\ UNCHANGED <<variant, now, started, busDataCache, db, nextId, running,
                 handler>>

\* IsFresh with the boundary included: fresh up to and including 30 s
IsFreshInclusive(cache, t) ==
  /\ cache.data /= None
  /\ cache.lastUpdated /= None
  /\ t - cache.lastUpdated[1] <= cacheExpiry

\* IsFresh with the comparison turned around
IsFreshInverted(cache, t) ==
  /\ cache.data /= None
  /\ cache.lastUpdated /= None
  /\ t - cache.lastUpdated[1] > cacheExpiry

\* busDataCache.data && age < busDataCache.cacheExpiry, where age is
\* Infinity when lastUpdated is null
IsFresh(cache, t) ==
  /\ cache.data /= None
  /\ cache.lastUpdated /= None
  /\ t - cache.lastUpdated[1] < cacheExpiry

\* GET /api/buses, from the arrival of the request to the first await
GetBuses(c) ==
  /\ running
  /\ started
  /\ handler[c].pc = "idle"
  /\ IF IsFresh(busDataCache, now)
     THEN /\ sent' = Answer(c, Response(200, TRUE, busDataCache.data[1],
                                        TRUE, FALSE, busDataCache.lastUpdated),
                            TRUE, "none", NoBody, "none", busDataCache.data,
                            "none", <<>>, {})
          /\ UNCHANGED <<inflight, handler>>
     ELSE /\ handler' = [handler EXCEPT ![c].pc = "awaitFetch"]
          /\ inflight' = inflight \cup {StartFetch(c)}
          /\ sent' = NoAnswer
  /\ settled' = NoCall
  /\ filtered' = NoFiltered
  /\ UNCHANGED <<variant, now, started, timerNext, busDataCache, db, nextId,
                 running>>

\* the fallback query of the catch block of GET /api/buses
FallbackResponse(rows, t, dbOk) ==
  IF dbOk
  THEN Response(200, TRUE, SelectRecent(rows, t), TRUE, TRUE, None)
  ELSE Response(500, FALSE, <<>>, FALSE, FALSE, None)

\* res.json after `await fetchMetrobusData()` returned r.ret
FetchedResponse(r) ==
  Response(200, TRUE, r.ret, FALSE, FALSE, r.cache.lastUpdated)

\* The INSERT of element k is issued: the loop gets to the element and
\* its coordinates parse.
FlatInsertIssued(buses, k) ==
  /\ k \in 1..Len(buses)
  /\ \A j \in 1..k : ~buses[j].isNull
  /\ parseFloat(buses[k].bus_lat).t /= "nan"
  /\ parseFloat(buses[k].bus_lon).t /= "nan"

\* The refusal of a statement of server.js surfaces as an 'error' event
\* without a listener and ends the process.
ErrorEventEndsProcess(v, o, fault) ==
  /\ v = "flat"
  /\ fault.fatal
  /\ fault.prune \/ FlatInsertIssued(o.body.items, fault.insert)

\* axios.get of call f settles to o; fetchMetrobusData runs to its end and
\* the awaiting handler, if any, runs on to its response or to db.all
FetchSettle(f, o, fault, dbOk) ==
  LET r == fetchMetrobusData(variant, o, fault, busDataCache, db, nextId, now)
      c == f.caller
      up == IF o.ok THEN "responded" ELSE "rejected"
      others == {g.caller : g \in inflight \ {f}}
  IN /\ running
     /\ Len(r.db) <= MaxRows
     /\ running' = ~ErrorEventEndsProcess(variant, o, fault)
     /\ busDataCache' = r.cache
     /\ db' = r.db
     /\ nextId' = r.nextId
     /\ inflight' = inflight \ {f}
     /\ settled' = Call(c, up, o.body, fault, r, others)
     /\ filtered' = NoFiltered
     /\ IF c = TimerCaller
        THEN /\ UNCHANGED handler
             /\ sent' = NoAnswer
        ELSE IF ~r.threw
        THEN /\ handler' = [handler EXCEPT ![c] = IdleHandler]
             /\ sent' = Answer(c, FetchedResponse(r), FALSE, up, o.body, r.path,
                               busDataCache.data, "none", <<>>, others)
        ELSE IF variant = "geo"
        THEN /\ handler' = [handler EXCEPT ![c] = IdleHandler]
             /\ sent' = Answer(c, FallbackResponse(r.db, now, dbOk), FALSE,
                               up, o.body, r.path, busDataCache.data,
                               IF dbOk THEN "ok" ELSE "failed", r.db, others)
        ELSE /\ handler' = [handler EXCEPT ![c] =
                               [pc |-> "awaitDb", upstream |-> up,
                                body |-> o.body,
                                prior |-> busDataCache.data]]
             /\ sent' = NoAnswer
     /\ UNCHANGED <<variant, now, started, timerNext>>

\* The fallback query of part_000 runs inside the step in which the fetch
\* settles; it succeeds or throws.  No other settling step queries.
StoreOutcomes(f, o, fault) ==
  IF /\ variant = "geo"
     /\ f.caller /= TimerCaller
     /\ fetchMetrobusData(variant, o, fault, busDataCache, db, nextId, now).threw
  THEN BOOLEAN ELSE {TRUE}

\* the callback of db.all (src/server.js only)
DbAllCallback(c, dbOk) ==
  /\ running
  /\ handler[c].pc = "awaitDb"
  /\ handler' = [handler EXCEPT ![c] = IdleHandler]
  /\ sent' = Answer(c, FallbackResponse(db, now, dbOk), FALSE,
                    handler[c].upstream, handler[c].body, "throw",
                    handler[c].prior,
                    IF dbOk THEN "ok" ELSE "failed", db, {})
  /\ settled' = NoCall
  /\ filtered' = NoFiltered
  /\ UNCHANGED <<variant, now, started, timerNext, busDataCache, db, nextId,
                 running, inflight>>

\* GET /api/buses/filtered.  The query runs on the store as it is and the
\* response follows (in server.js from the callback of db.all); the query
\* succeeds or fails.
GetFiltered(c, routes, busNumber, dbOk) ==
  /\ running
  /\ started
  /\ filtered' =
       IF dbOk
       THEN Filtered(c, routes, busNumber, 200,
                     SelectFiltered(db, now, routes, busNumber), db)
       ELSE Filtered(c, routes, busNumber, 500, <<>>, db)
  /\ settled' = NoCall
  /\ sent' = NoAnswer
  /\ UNCHANGED <<variant, now, started, timerNext, busDataCache, db, nextId,
                 running, inflight, handler>>

\* 10 s pass.  A pending axios.get settles within its timeout and the
\* interval callback runs when due, so the clock does not pass either.
Advance ==
  /\ running
  /\ started
  /\ now < MaxTime
  /\ now < timerNext
  /\ \A f \in inflight : now < f.started + axiosTimeout
  /\ now' = now + 1
  /\ settled' = NoCall
  /\ filtered' = NoFiltered
  /\ sent' = NoAnswer
  /\ UNCHANGED <<variant, started, timerNext, busDataCache, db, nextId,
                 running, inflight, handler>>

Next ==
  \/ startPeriodicFetch
  \/ TimerTick
  \/ \E c \in Clients : GetBuses(c)
  \/ \E f \in inflight : \E o \in Outcomes(variant) :
        \E dbOk \in StoreOutcomes(f, o, NoFault) :
          FetchSettle(f, o, NoFault, dbOk)
  \/ \E c \in Clients : \E dbOk \in BOOLEAN : DbAllCallback(c, dbOk)
  \/ Advance

Spec == Init /\ [][Next]_vars

\* The refresh machine on its own (no request arrives), with a store
\* that may refuse the DELETE or one INSERT of a persist cycle.
NextStore ==
  \/ startPeriodicFetch
  \/ TimerTick
  \/ \E f \in inflight : \E o \in Outcomes(variant) :
        \E fault \in StoreFaults(variant, o) : FetchSettle(f, o, fault, TRUE)
  \/ Advance

SpecStore == Init /\ [][NextStore]_vars

\* Node runs app.listen's callback and every due interval callback; axios
\* settles each request within its timeout; time passes.
FairnessStore ==
  /\ WF_vars(startPeriodicFetch)
  /\ WF_vars(TimerTick)
  /\ WF_vars(Advance)
  /\ WF_vars(\E f \in inflight : \E o \in Outcomes(variant) :
               \E fault \in StoreFaults(variant, o) :
                 FetchSettle(f, o, fault, TRUE))

FairSpecStore == SpecStore /\ FairnessStore

\* The server with requests to /api/buses and a store that may refuse the
\* DELETE or one INSERT of a persist cycle.
NextFaults ==
  \/ startPeriodicFetch
  \/ TimerTick
  \/ \E c \in Clients : GetBuses(c)
  \/ \E f \in inflight : \E o \in Outcomes(variant) :
        \E fault \in StoreFaults(variant, o) :
          \E dbOk \in StoreOutcomes(f, o, fault) :
            FetchSettle(f, o, fault, dbOk)
  \/ \E c \in Clients : \E dbOk \in BOOLEAN : DbAllCallback(c, dbOk)
  \/ Advance

SpecFaults == Init /\ [][NextFaults]_vars

\* the awaited axios.get of a call made by caller settles
SettleOf(caller) ==
  \E f \in inflight : \E o \in Outcomes(variant) :
    /\ f.caller = caller
    /\ \E fault \in StoreFaults(variant, o) :
          \E dbOk \in StoreOutcomes(f, o, fault) :
            FetchSettle(f, o, fault, dbOk)

\* Node runs app.listen's callback, every due interval callback and every
\* db.all callback; axios settles each request within its timeout; time
\* passes.
FairnessFaults ==
  /\ WF_vars(startPeriodicFetch)
  /\ WF_vars(TimerTick)
  /\ WF_vars(Advance)
  /\ \A caller \in Clients \cup {TimerCaller} : WF_vars(SettleOf(caller))
  /\ \A c \in Clients : WF_vars(\E dbOk \in BOOLEAN : DbAllCallback(c, dbOk))

FairSpecFaults == SpecFaults /\ FairnessFaults

\* The refresh machine with requests to /api/buses/filtered.
NextFiltered ==
  \/ startPeriodicFetch
  \/ TimerTick
  \/ \E f \in inflight : \E o \in Outcomes(variant) :
        FetchSettle(f, o, NoFault, TRUE)
  \/ \E c \in Clients : \E routes \in RoutesInputs :
        \E busNumber \in BusNumberInputs : \E dbOk \in BOOLEAN :
          GetFiltered(c, routes, busNumber, dbOk)
  \/ Advance

SpecFiltered == Init /\ [][NextFiltered]_vars

\* ------------------------------------------------------------- claims
\* sent.client /= 0 exactly in the state that follows a response

\* C1: in every reachable state at most one upstream fetch (a call of
\* fetchMetrobusData awaiting axios.get) is in flight.
C1_AtMostOneFetchInFlight == Cardinality(inflight) <= 1

\* C2: when the fetches of two triggers (requests or timer ticks) overlap,
\* both observe the same snapshot: a call that was in flight when another
\* call returned, and returns in the next step, returns the same batch,
\* and that batch is the one the cache then holds.
C2_OverlappingTriggersSameSnapshot ==
  [][(/\ settled.caller >= 0
      /\ settled.path /= "throw"
      /\ settled'.caller \in settled.overlapped
      /\ settled'.path /= "throw")
     => (/\ settled'.ret = settled.ret
         /\ busDataCache'.data = Some(settled'.ret))]_vars

\* C3: when the upstream call is rejected and the cache holds a prior
\* snapshot, the response is a success carrying the prior snapshot's data
\* with cached = true.
C3_FailedFetchServesPriorCached ==
  (sent.client /= 0 /\ sent.upstream = "rejected" /\ sent.prior /= None)
    => (/\ sent.resp.status = 200
        /\ sent.resp.success
        /\ sent.resp.data = sent.prior[1]
        /\ sent.resp.cached)

\* the rows of the store, as it stood when the fallback query of answer a
\* ran, that are less than 5 minutes old
C4RecentRows(a) ==
  {a.storeRows[i] : i \in {j \in 1..Len(a.storeRows) :
                             a.storeRows[j].timestamp > a.at - fallbackWindow}}

\* C4: when the fetch failed (fetchMetrobusData threw), no snapshot was in
\* the cache and the fallback query succeeds, the response is a success
\* with the fallback flag whose data is exactly the store's rows of the
\* last 5 minutes, newest first; and /api/buses queries the store only
\* after a failed fetch with no snapshot in the cache.
C4_StoreFallbackOnlyWithoutSnapshot ==
  /\ (sent.client /= 0 /\ sent.path = "throw" /\ sent.prior = None
         /\ sent.store = "ok")
       => (/\ sent.resp.status = 200
           /\ sent.resp.success
           /\ sent.resp.fallback
           /\ {sent.resp.data[i] : i \in 1..Len(sent.resp.data)}
                = C4RecentRows(sent)
           /\ Len(sent.resp.data) = Cardinality(C4RecentRows(sent))
           /\ \A i \in 1..Len(sent.resp.data) : \A j \in i..Len(sent.resp.data) :
                 sent.resp.data[i].timestamp >= sent.resp.data[j].timestamp)
  /\ (sent.client /= 0 /\ sent.store /= "none")
       => (sent.path = "throw" /\ sent.prior = None /\ ~sent.fresh)
  /\ \A c \in Clients :
       handler[c].pc = "awaitDb" => handler[c].prior = None

\* C4 witness: a fallback response that returns store rows
C4_Witness ==
  /\ sent.client /= 0
  /\ sent.path = "throw"
  /\ sent.store = "ok"
  /\ sent.resp.fallback
  /\ Len(sent.resp.data) >= 1
  /\ Len(sent.storeRows) >= 1

\* C5: on total failure (the fetch failed, no snapshot in the cache, no
\* store row of the last 5 minutes) the response is a 500 with
\* success = false.
C5_TotalFailureIsError ==
  (sent.client /= 0 /\ sent.path = "throw" /\ sent.prior = None
      /\ sent.store /= "none" /\ C4RecentRows(sent) = {})
    => (sent.resp.status = 500 /\ ~sent.resp.success)

\* C6: a response is an error (500) only if the cache held no fresh
\* snapshot (indeed none at all), the fetch failed (fetchMetrobusData
\* threw) and the store query failed; every other response is a success.
C6_ErrorOnlyOnTripleFault ==
  sent.client /= 0
    => (/\ sent.resp.status \in {200, 500}
        /\ (sent.resp.status = 200) <=> sent.resp.success
        /\ sent.resp.status = 500
             => (/\ ~sent.fresh
                 /\ sent.prior = None
                 /\ sent.upstream /= "none"
                 /\ sent.path = "throw"
                 /\ sent.store = "failed"))

\* C6 witness: an error response
C6_Witness ==
  /\ sent.client /= 0
  /\ sent.resp.status = 500
  /\ sent.store = "failed"

\* C7: a request that arrives while the cache is fresh (a snapshot is
\* there and now - lastUpdated < 30 s) starts no fetch and is answered in
\* the same step from the cache, with cached = true, the cache, the store
\* and the fetches in flight left as they were.
C7_FreshHitIsCacheRead ==
  [][\A c \in Clients :
       (/\ started
        /\ handler[c].pc = "idle"
        /\ busDataCache.data /= None
        /\ busDataCache.lastUpdated /= None
        /\ now - busDataCache.lastUpdated[1] < cacheExpiry)
       => (/\ handler'[c].pc = "idle"
           /\ sent'.client = c
                => (/\ sent'.resp = Response(200, TRUE, busDataCache.data[1],
                                             TRUE, FALSE,
                                             busDataCache.lastUpdated)
                    /\ UNCHANGED <<busDataCache, db, nextId, inflight>>))]_vars

\* C7 witness: a request answered on its arrival, from a fresh cache
C7_Witness ==
  /\ sent.client /= 0
  /\ sent.fresh
  /\ sent.resp.cached
  /\ busDataCache.data = Some(sent.resp.data)

\* C8: every record of the batch held in the cache has a valid, finite
\* latitude and longitude.
C8_CachedCoordinatesValid ==
  busDataCache.data /= None
    => \A i \in 1..Len(busDataCache.data[1]) :
          /\ busDataCache.data[1][i].lat.t = "num"
          /\ busDataCache.data[1][i].lng.t = "num"

\* an element the loops of fetchMetrobusData can normalize
C9WellFormed(e) ==
  /\ ~e.isNull
  /\ IF variant = "geo" THEN e.hasGeometry /\ e.hasProperties ELSE TRUE

\* C9: a response of a recognized shape that holds well-formed elements
\* and malformed ones is a successful fetch: a snapshot with the
\* well-formed elements is published and returned.
C9_MalformedElementSkipped ==
  (/\ sent.client /= 0
   /\ sent.upstream = "responded"
   /\ sent.body.shape \in {"array", "wrapped"}
   /\ \E i \in 1..Len(sent.body.items) : C9WellFormed(sent.body.items[i])
   /\ \E i \in 1..Len(sent.body.items) : ~C9WellFormed(sent.body.items[i]))
  => (/\ sent.path = "published"
      /\ sent.resp.success
      /\ busDataCache.data = Some(sent.resp.data)
      /\ Len(sent.resp.data) >= 1)

\* C10: after a fetch that ends without a fetch failure, an empty batch
\* included, the cache holds that fetch's batch and its time, and is fresh.
C10_SuccessfulFetchReplacesCache ==
  (/\ sent.client /= 0
   /\ sent.upstream = "responded"
   /\ sent.path \in {"published", "empty"})
  => (/\ busDataCache.data = Some(sent.resp.data)
      /\ busDataCache.lastUpdated = Some(sent.at)
      /\ IsFresh(busDataCache, now))


\* C11: every upstream body that matches none of the recognized shapes,
\* null and non-objects included, is an empty batch: the call returns the
\* empty list, does not fail, and the request that made it is answered
\* with that empty list and never from the fallback chain.
C11_UnrecognizedShapeIsEmptyBatch ==
  /\ (settled.upstream = "responded" /\ settled.body.shape \in {"other", "null"})
       => (settled.path = "empty" /\ settled.ret = <<>>)
  /\ (sent.upstream = "responded" /\ sent.body.shape \in {"other", "null"})
       => (sent.resp.status = 200 /\ ~sent.resp.fallback /\ sent.resp.data = <<>>)

\* a recognized, non-empty list whose elements are all well-formed
C12Processable(body) ==
  /\ body.shape \in {"array", "wrapped"}
  /\ body.items /= <<>>
  /\ \A i \in 1..Len(body.items) : C9WellFormed(body.items[i])

\* C12: when the store refuses the prune or a row insert during a fetch
\* whose upstream response is a well-formed list, the fetch still ends as
\* a success and the cache is replaced by that fetch's batch and time.
C12_PersistFailureDoesNotBlockPublish ==
  (/\ settled.upstream = "responded"
   /\ C12Processable(settled.body)
   /\ settled.fault /= NoFault)
  => (/\ settled.path = "published"
      /\ busDataCache = Publish(settled.ret, now))

\* the element gets to its INSERT: it is well-formed and its coordinates
\* are numbers
C13Valid(e) ==
  /\ C9WellFormed(e)
  /\ IF variant = "flat"
     THEN parseFloat(e.bus_lat).t /= "nan" /\ parseFloat(e.bus_lon).t /= "nan"
     ELSE /\ ~isNaN(Coord(e, 1)) /\ ~isNaN(Coord(e, 2))
          /\ Coord(e, 1).t /= "null" /\ Coord(e, 2).t /= "null"

\* the bus_id the element is inserted under
C13BusId(e) ==
  TextAffinity(IF variant = "flat" THEN Or(e.vehicle, SynthBusId(now))
               ELSE Or(Or(e.unit, e.id), SynthBusId(now)))

\* C13: in a persist cycle in which the store refuses the insert of one
\* element, every other element of the list with valid coordinates has a
\* row of this cycle in the store when the cycle has ended.
C13_FailedInsertDoesNotAbortOthers ==
  [][(/\ settled'.upstream = "responded"
      /\ settled'.body.shape \in {"array", "wrapped"}
      /\ settled'.fault.insert \in 1..Len(settled'.body.items)
      /\ \A j \in 1..Len(settled'.body.items) :
            C9WellFormed(settled'.body.items[j])
      /\ C13Valid(settled'.body.items[settled'.fault.insert]))
     => \A j \in 1..Len(settled'.body.items) \ {settled'.fault.insert} :
           C13Valid(settled'.body.items[j])
             => \E i \in 1..Len(db') :
                   /\ db'[i].timestamp = now
                   /\ db'[i].id >= nextId
                   /\ db'[i].bus_id = C13BusId(settled'.body.items[j])]_vars

\* the step is a persist cycle (a recognized, non-empty list arrived) whose
\* DELETE the store did not refuse
C14Cycle ==
  /\ settled'.upstream = "responded"
  /\ settled'.body.shape \in {"array", "wrapped"}
  /\ settled'.body.items /= <<>>
  /\ ~settled'.fault.prune

C15Fresh(cache) ==
  /\ cache.data /= None
  /\ cache.lastUpdated /= None
  /\ now - cache.lastUpdated[1] < cacheExpiry

\* C15: a request to /api/buses is answered by a cache read exactly when
\* a snapshot is present and less than 30 s old, and starts a fetch
\* otherwise, in particular at lastUpdated + 30 s and later; right after
\* a publish the cache is fresh.
C15_FreshExactlyWithinWindow ==
  [][/\ \A c \in Clients :
          /\ (handler[c].pc = "idle" /\ sent'.client = c)
               => (C15Fresh(busDataCache) /\ sent'.fresh /\ inflight' = inflight)
          /\ (handler[c].pc = "idle" /\ handler'[c].pc = "awaitFetch")
               => (/\ ~C15Fresh(busDataCache)
                   /\ sent' = NoAnswer
                   /\ inflight' = inflight \cup {StartFetch(c)})
     /\ settled'.path = "published" => C15Fresh(busDataCache')]_vars

\* a request arrived 30 s after the publish and started a fetch
C15_Witness ==
  /\ busDataCache.data /= None
  /\ now - busDataCache.lastUpdated[1] = cacheExpiry
  /\ \E c \in Clients :
        /\ handler[c].pc = "awaitFetch"
        /\ StartFetch(c) \in inflight

RECURSIVE C16Contains(_, _)
\* needle occurs in text as a substring
C16Contains(text, needle) ==
  \/ Len(needle) <= Len(text) /\ SubSeq(text, 1, Len(needle)) = needle
  \/ text /= <<>> /\ C16Contains(Tail(text), needle)

\* the row is one the claim says a request with these parameters selects
C16Selected(r, t, routes, busNumber) ==
  /\ r.timestamp > t - fallbackWindow
  /\ Truthy(routes)
       => \E i \in 1..Len(RouteList(routes)) :
             r.route_number = RouteList(routes)[i]
  /\ Truthy(busNumber) => C16Contains(r.bus_id.s, busNumber.s)

\* C16: a successful response of /api/buses/filtered holds exactly the
\* store's rows of the last 5 minutes whose route_number is one of the
\* requested routes (if any are given) and whose bus_id contains busNumber
\* as a substring (if given), newest first; the request leaves the cache
\* as it is.
C16_FilteredReturnsExactlyMatchingRows ==
  [][filtered'.status = 200
       => /\ \A i \in 1..Len(db) :
                C16Selected(db[i], now, filtered'.routes, filtered'.busNumber)
                  <=> \E j \in 1..Len(filtered'.data) : filtered'.data[j] = db[i]
          /\ \A j \in 1..Len(filtered'.data) :
                \E i \in 1..Len(db) : filtered'.data[j] = db[i]
          /\ \A i, j \in 1..Len(filtered'.data) :
                i < j => filtered'.data[i].timestamp >= filtered'.data[j].timestamp
          /\ busDataCache' = busDataCache]_vars

\* the upstream route label of element e, and the bus id and route of its
\* cached record rec
C17Label(e) == IF variant = "flat" THEN e.routenumber ELSE e.name

C17RecordBusId(rec) == IF variant = "flat" THEN rec.veh ELSE rec.busId

C17HasSeparator(label) ==
  label.t = "str" /\ \E k \in 1..Len(label.s) : label.s[k] = "-"

\* C17: for an element whose route label has a separator ("09-1"), the
\* cached record and the row persisted in the same cycle both carry the
\* segment before the separator as route, and a filter query for the
\* cached record's route returns that row.
C17_SameRouteLabelInCacheAndStore ==
  settled.path = "published"
    => \A i \in 1..Len(settled.ret) : \A j \in 1..Len(db) :
          (/\ C17HasSeparator(C17Label(settled.body.items[i]))
           /\ db[j].timestamp = now
           /\ db[j].bus_id = TextAffinity(C17RecordBusId(settled.ret[i])))
          => /\ db[j].route_number =
                  Str(SplitFirst(C17Label(settled.body.items[i]).s, "-"))
             /\ TextAffinity(settled.ret[i].route) = db[j].route_number
             /\ \E k \in 1..Len(SelectFiltered(db, now,
                                   TextAffinity(settled.ret[i].route), Undef)) :
                   SelectFiltered(db, now, TextAffinity(settled.ret[i].route),
                                  Undef)[k] = db[j]

\* the times at which a fetch is due: start-up and every 30 s after it
C18TickTimes == {k \in 0..MaxTime : k % timerPeriod = 0}

C18TimerFetchAt(k) == [caller |-> TimerCaller, started |-> k] \in inflight

\* C18: however the fetches end, a fetch is started at start-up and at
\* every 30 s tick, the interval stays armed, every fetch the timer
\* started comes to its end, and when the upstream answered it with a
\* well-formed list its batch is published.
C18_RefreshIsPerpetual ==
  /\ \A k \in C18TickTimes : <>C18TimerFetchAt(k)
  /\ [](started => (timerNext >= now /\ timerNext % timerPeriod = 0))
  /\ (\E k \in C18TickTimes : C18TimerFetchAt(k)) ~> (settled.caller = TimerCaller)
  /\ []((/\ settled.caller = TimerCaller
         /\ settled.upstream = "responded"
         /\ C12Processable(settled.body))
        => (settled.path = "published"
            /\ busDataCache = Publish(settled.ret, now)))

\* the element is a feature whose coordinates are a pair of numbers
C19NumberPair(e) ==
  /\ C9WellFormed(e)
  /\ Len(e.coordinates) = 2
  /\ e.coordinates[1].t = "num"
  /\ e.coordinates[2].t = "num"

\* C19: in part_000 a feature's coordinates [a, b] are taken as
\* [longitude, latitude]: the cached record has lng = a and lat = b, and
\* so has every row the cycle inserts for the feature.
C19_CoordinatesAreLongitudeLatitude ==
  [][(variant = "geo" /\ settled'.path = "published")
       => /\ \A i \in 1..Len(settled'.body.items) :
                C19NumberPair(settled'.body.items[i])
                  => /\ settled'.ret[i].lng = settled'.body.items[i].coordinates[1]
                     /\ settled'.ret[i].lat = settled'.body.items[i].coordinates[2]
          /\ \A j \in 1..Len(db') :
                db'[j].id >= nextId
                  => \E i \in 1..Len(settled'.body.items) :
                        /\ C19NumberPair(settled'.body.items[i])
                        /\ db'[j].bus_id = C13BusId(settled'.body.items[i])
                        /\ db'[j].longitude = settled'.body.items[i].coordinates[1]
                        /\ db'[j].latitude = settled'.body.items[i].coordinates[2]]_vars

\* the feature with coordinates [-52, 47] has been cached and persisted
C19_Witness ==
  /\ variant = "geo"
  /\ settled.path = "published"
  /\ \E i \in 1..Len(settled.ret) :
        settled.ret[i].lng = Num(0 - 52) /\ settled.ret[i].lat = Num(47)
  /\ \E j \in 1..Len(db) :
        /\ db[j].timestamp = now
        /\ db[j].longitude = Num(0 - 52)
        /\ db[j].latitude = Num(47)

\* C20: the cache's data and lastUpdated are both unset or both set, a
\* step that changes the cache sets both to the batch and the time of the
\* one fetch that publishes in that step, and a request answered from the
\* cache gets the data and the lastUpdated of one cache state.
C20_PublishIsAtomic ==
  /\ []((busDataCache.data = None) <=> (busDataCache.lastUpdated = None))
  /\ [][/\ busDataCache' /= busDataCache
             => /\ settled'.path = "published"
                /\ busDataCache'.data = Some(settled'.ret)
                /\ busDataCache'.lastUpdated = Some(now)
        /\ sent'.fresh
             => /\ busDataCache.data = Some(sent'.resp.data)
                /\ busDataCache.lastUpdated = sent'.resp.lastUpdated
                /\ busDataCache.lastUpdated /= None]_vars

\* a request was answered from the cache while another fetch was in flight
C20_Witness ==
  /\ sent.fresh
  /\ inflight /= {}
  /\ busDataCache.data = Some(sent.resp.data)
  /\ busDataCache.lastUpdated = sent.resp.lastUpdated
  /\ busDataCache.lastUpdated = Some(sent.at)

\* C21: a request to /api/buses that is not answered on arrival is
\* answered later, whatever the cache holds and however axios.get and the
\* store query end; a response goes only to a client whose request is
\* open, and it closes that request, so no request gets two.
C21_EveryRequestAnsweredOnce ==
  /\ \A c \in Clients : (handler[c].pc /= "idle") ~> (sent.client = c)
  /\ [][\A c \in Clients :
          /\ sent'.client = c
               => /\ handler'[c].pc = "idle"
                  /\ handler[c].pc = "idle" => sent'.fresh
          /\ (handler[c].pc /= "idle" /\ handler'[c].pc = "idle")
               => sent'.client = c
          /\ (handler[c].pc /= "idle" /\ handler'[c].pc /= "idle")
               => sent'.client /= c]_vars

\* the time of the cache's snapshot, before every time if there is none
C22Time(cache) ==
  IF cache.lastUpdated = None THEN 0 - 1 ELSE cache.lastUpdated[1]

\* C22: once busDataCache.data holds a snapshot, no step of the server
\* (a fetch that publishes, returns [], fails, or a request) sets it back
\* to null, and no step moves busDataCache.lastUpdated to an earlier time.
C22_CacheNeverEmptiedNorOlder ==
  [][/\ busDataCache.data /= None => busDataCache'.data /= None
     /\ C22Time(busDataCache') >= C22Time(busDataCache)]_vars

\* a fetch returned [] or failed while the cache held a snapshot published
\* at an earlier time, and the snapshot is still there
C22_Witness ==
  /\ settled.path \in {"empty", "stale"}
  /\ busDataCache.data /= None
  /\ C22Time(busDataCache) >= 0
  /\ C22Time(busDataCache) < now

\* C23: a call of fetchMetrobusData that ends in its catch block (it
\* returns the stale snapshot or rethrows) leaves bus_positions and
\* busDataCache as they were: no row deleted, no row inserted, data and
\* lastUpdated unchanged.
C23_FailedFetchLeavesNoTrace ==
  [][settled'.path \in {"stale", "throw"}
       => /\ db' = db
          /\ nextId' = nextId
          /\ busDataCache' = busDataCache]_vars
====
